---- MODULE Spec2Model ----
(***************************************************************************)
(* Model of src/index.js (the second, current definition of the server,    *)
(* lines 201-415): an express relay between a front end, a Notion record   *)
(* store (clients, demands, time log) and a Google spreadsheet.            *)
(*                                                                         *)
(* Each HTTP request is an asynchronous task that is suspended at every    *)
(* `await`.  One action of the model is one remote call taking effect      *)
(* together with the synchronous code of the handler that runs when the    *)
(* call returns (up to the next await or to the response).                 *)
(*                                                                         *)
(* Hours are counted in ten-thousandths of an hour (toFixed(4)), time in   *)
(* milliseconds (Date.now()).                                              *)
(***************************************************************************)
EXTENDS Integers, Sequences, FiniteSets, TLC

VARIABLES
    sheets,      \* TRUE iff the module-level `sheets` client was constructed
    demandsDb,   \* the DEMANDS_DB_ID collection of the record store
    timeLog,     \* the TIME_LOG_DB_ID collection of the record store
    book,        \* the spreadsheet GOOGLE_SHEET_ID: title -> [exists, rows]
    now,         \* Date.now()
    req          \* the request tasks: slot -> handler state

vars == <<sheets, demandsDb, timeLog, book, now, req>>

----------------------------------------------------------------------------
(* Bounds of the model.                                                    *)

MaxDemands == 1
MaxEntries == 2
MaxTicks == 1
MaxSeconds == 3700

(* Program constants.                                                      *)

WeekMs == 7 * 24 * 60 * 60 * 1000
SecondsPerHour == 3600
Scale == 10000

Slots == {1, 2}
ClientIds == {"c1", "c2"}
SheetNames == {"Acme", "Beta"}

Start == WeekMs + 1
Future == Start + MaxTicks + 1

Range(s) == {s[i] : i \in 1..Len(s)}

----------------------------------------------------------------------------
(* POST /api/time-entries: seconds to hours, toFixed(4), parseFloat.       *)

\* durationSeconds / 3600 as an exact fraction <<numerator, denominator>>
durationHours(durationSeconds) == <<durationSeconds, SecondsPerHour>>

\* mutant: the digits after the fourth are cut, not rounded
toFixedTruncated(x) == (x[1] * Scale) \div x[2]

\* Number.prototype.toFixed(4) then parseFloat: the integer n for which
\* n / 10^4 - x is as close to zero as possible, the larger n on a tie.
\* The result is the stored number, in ten-thousandths of an hour.
toFixed(x) == (2 * x[1] * Scale + x[2]) \div (2 * x[2])

----------------------------------------------------------------------------
(* The record store (Notion).                                              *)

\* page.properties['Nome da Demanda']?.title[0]?.plain_text || <fallback>
plainTextOr(title, fallback) ==
    IF title = <<>> \/ title[1] = "" THEN fallback ELSE title[1]

\* filter { property: 'Cliente', relation: { contains: clientId } }
demandsQuery(db, clientId) ==
    SelectSeq(db, LAMBDA page : clientId \in Range(page.cliente))

\* demandsResponse.results.map(page => ({ id, name }))
clientDemandsOf(results) ==
    [i \in 1..Len(results) |->
        [id |-> results[i].id,
         name |-> plainTextOr(results[i].title, "Demanda Sem Nome")]]

\* { property: 'Data', date: { on_or_after: oneWeekAgo } }
dateFilter(page, oneWeekAgo) == page.date >= oneWeekAgo

\* { or: demandIdFilters }, one { relation: { contains: demand.id } } each
demandIdFilters(page, clientDemands) ==
    \E i \in 1..Len(clientDemands) : clientDemands[i].id \in Range(page.relation)

\* the and-filter of the time-log query, applied by the record store
timeEntriesQuery(log, oneWeekAgo, clientDemands) ==
    SelectSeq(log, LAMBDA page :
        dateFilter(page, oneWeekAgo) /\ demandIdFilters(page, clientDemands))

----------------------------------------------------------------------------
(* Aggregation (Passo 4 and Passo 5).                                      *)

NumCell(n) == [t |-> "num", n |-> n, s |-> <<>>]
TextCell(parts) == [t |-> "str", n |-> 0, s |-> parts]

\* mutant: relation[0]?.id, which skips over a missing relation
mapNeverThrows(results) == FALSE

\* page.properties.Demanda.relation[0] is undefined: reading .id throws
mapThrows(results) == \E i \in 1..Len(results) : results[i].relation = <<>>

\* clientDemands.find(d => d.id === demandRelation.id); a page without a
\* relation has thrown before (mapThrows) and finds nothing here
demandNameOf(page, clientDemands) ==
    LET hits == {i \in 1..Len(clientDemands) :
                    page.relation # <<>> /\ clientDemands[i].id = page.relation[1]}
    IN  IF hits = {} THEN "Demanda Desconhecida"
        ELSE clientDemands[CHOOSE i \in hits : \A j \in hits : i <= j].name

\* timeEntriesResponse.results.map(page => ({ demandName, duration }))
reportDataOf(results, clientDemands) ==
    [i \in 1..Len(results) |->
        [demandName |-> demandNameOf(results[i], clientDemands),
         duration |-> results[i].number]]

\* the properties every {} inherits from Object.prototype
ProtoKeys == {"constructor", "__proto__", "hasOwnProperty", "isPrototypeOf",
              "propertyIsEnumerable", "toLocaleString", "toString", "valueOf"}

\* the text of an inherited value when + turns it into a string
protoText(key) ==
    IF key = "__proto__" THEN "[object Object]"
    ELSE "function " \o (IF key = "constructor" THEN "Object" ELSE key)
         \o "() { [native code] }"

ownIndex(acc, key) == {i \in 1..Len(acc) : acc[i][1] = key}

\* acc[entry.demandName] || 0
getOrZero(acc, key) ==
    LET own == ownIndex(acc, key)
    IN  IF own # {} THEN
            LET v == acc[CHOOSE i \in own : TRUE][2]
            IN  IF v.t = "num" /\ v.n = 0 THEN NumCell(0) ELSE v
        ELSE IF key \in ProtoKeys THEN TextCell(<<protoText(key)>>)
        ELSE NumCell(0)

\* (acc[entry.demandName] || 0) + entry.duration
plus(v, duration) ==
    IF v.t = "num" THEN NumCell(v.n + duration)
    ELSE TextCell(Append(v.s, ToString(duration)))

\* acc[entry.demandName] = value: the __proto__ setter ignores a primitive
setKey(acc, key, value) ==
    LET own == ownIndex(acc, key)
    IN  IF key = "__proto__" THEN acc
        ELSE IF own # {} THEN
            [i \in 1..Len(acc) |-> IF i \in own THEN <<key, value>> ELSE acc[i]]
        ELSE Append(acc, <<key, value>>)

\* reportData.reduce((acc, entry) => { ... }, {}), own keys in insertion order
RECURSIVE reduce(_, _)
reduce(reportData, n) ==
    IF n = 0 THEN <<>>
    ELSE LET acc == reduce(reportData, n - 1)
             entry == reportData[n]
         IN  setKey(acc, entry.demandName,
                    plus(getOrZero(acc, entry.demandName), entry.duration))

aggregatedDataOf(reportData) == reduce(reportData, Len(reportData))

\* [['Demanda', 'Horas'], ...Object.entries(aggregatedData)]
sheetDataOf(aggregatedData) ==
    <<  <<TextCell(<<"Demanda">>), TextCell(<<"Horas">>)>>  >> \o
    [i \in 1..Len(aggregatedData) |->
        <<TextCell(<<aggregatedData[i][1]>>), aggregatedData[i][2]>>]

----------------------------------------------------------------------------
(* The spreadsheet (Google Sheets).                                        *)

\* mutant: the title is compared with a property that never equals it
sheetExistsWrongField(b, sheetName) == FALSE

\* sheetsMetadata.data.sheets.some(s => s.properties.title === sheetName)
sheetExistsIn(b, sheetName) == \E t \in SheetNames : b[t].exists /\ t = sheetName

\* batchUpdate addSheet
addSheet(b, sheetName) ==
    [b EXCEPT ![sheetName] = [exists |-> TRUE, rows |-> <<>>]]

\* values.clear({ range: sheetName })
clearValues(b, sheetName) == [b EXCEPT ![sheetName].rows = <<>>]

\* values.update({ range: sheetName!A1, values }): writes the block at A1
\* and leaves every cell outside it as it was
updateValues(b, sheetName, values) ==
    LET old == b[sheetName].rows
        n == IF Len(old) > Len(values) THEN Len(old) ELSE Len(values)
    IN  [b EXCEPT ![sheetName].rows =
            [i \in 1..n |-> IF i <= Len(values) THEN values[i] ELSE old[i]]]

----------------------------------------------------------------------------
(* Request tasks.                                                          *)

\* `before` and `log` are history: the target sheet as the request found
\* it, and the remote calls the request has issued, with their outcomes.
idleReq ==
    [kind |-> "idle", pc |-> "idle",
     clientId |-> "", clientName |-> "", demandName |-> "", demandId |-> "",
     durationSeconds |-> 0, stamp |-> 0,
     clientDemands |-> <<>>, oneWeekAgo |-> 0, timeEntries |-> <<>>,
     sheetData |-> <<>>,
     status |-> 0, reply |-> "none", data |-> <<>>,
     before |-> [exists |-> FALSE, rows |-> <<>>], log |-> <<>>]

free(r) == req[r].pc \in {"idle", "done"}
inFlight(r, kind) == req[r].kind = kind /\ ~free(r)

\* a remote call of the request, with its outcome
called(rq, op, res) == [rq EXCEPT !.log = Append(@, [op |-> op, res |-> res])]

\* res.status(status).json(...)
respond(rq, status, reply, data) ==
    [rq EXCEPT !.pc = "done", !.status = status, !.reply = reply, !.data = data]

\* mutant: the catch block tries the call again instead of answering
caughtRetry(rq) == rq

\* the catch block of a handler: log, then res.status(500).json({ error })
caught(rq) == respond(rq, 500, "error", <<>>)

outcome(ok) == IF ok THEN "ok" ELSE "fault"

\* mutant: the configuration guard is missing
notConfiguredUnchecked(s) == FALSE

\* if (!sheets)
notConfigured(s) == ~s

\* if (clientDemands.length === 0)
noDemands(clientDemands) == Len(clientDemands) = 0

\* mutant: the emptiness test can never succeed
noEntriesNegative(reportData) == Len(reportData) < 0

\* if (reportData.length === 0)
noEntries(reportData) == Len(reportData) = 0

\* the request task r moves to rq
step(r, rq) == req' = [req EXCEPT ![r] = rq]

----------------------------------------------------------------------------
(* GET /api/clients, GET /api/demands.                                     *)

\* the CLIENTS_DB_ID collection, which no endpoint writes
clientsDb ==
    << [id |-> "c2", title |-> <<"Beta">>],
       [id |-> "c1", title |-> <<"Acme">>],
       [id |-> "c3", title |-> <<>>] >>

\* the record store's ascending order of titles
titleOrder == <<"", "Acme", "Beta", "Design", "Develop", "__proto__", "constructor">>
rank(title) ==
    LET n == IF title = <<>> THEN "" ELSE title[1]
    IN  CHOOSE i \in 1..Len(titleOrder) : titleOrder[i] = n

RECURSIVE insert(_, _)
insert(sorted, page) ==
    IF sorted = <<>> THEN <<page>>
    ELSE IF rank(page.title) < rank(Head(sorted).title)
         THEN <<page>> \o sorted
         ELSE <<Head(sorted)>> \o insert(Tail(sorted), page)

RECURSIVE sortsAscending(_)
\* sorts: [{ property, direction: 'ascending' }], stable
sortsAscending(db) ==
    IF db = <<>> THEN <<>>
    ELSE insert(sortsAscending(SubSeq(db, 1, Len(db) - 1)), db[Len(db)])

\* response.results.map(page => ({ id, name }))
clientsOf(results) ==
    [i \in 1..Len(results) |->
        [id |-> results[i].id,
         name |-> plainTextOr(results[i].title, "Sem nome")]]

\* response.results.map(page => ({ id, name, clientId }))
demandsOf(results) ==
    [i \in 1..Len(results) |->
        [id |-> results[i].id,
         name |-> plainTextOr(results[i].title, "Sem nome"),
         clientId |-> IF results[i].cliente = <<>> THEN "null"
                      ELSE results[i].cliente[1]]]

ReceiveClients(r) ==
    /\ free(r)
    /\ step(r, [idleReq EXCEPT !.kind = "clients", !.pc = "query"])
    /\ UNCHANGED <<sheets, demandsDb, timeLog, book, now>>

ClientsQuery(r, ok) ==
    /\ inFlight(r, "clients")
    /\ LET rq == called(req[r], "queryClients", outcome(ok))
       IN  step(r, IF ok THEN respond(rq, 200, "list",
                                      clientsOf(sortsAscending(clientsDb)))
                   ELSE caught(rq))
    /\ UNCHANGED <<sheets, demandsDb, timeLog, book, now>>

ReceiveDemands(r) ==
    /\ free(r)
    /\ step(r, [idleReq EXCEPT !.kind = "demands", !.pc = "query"])
    /\ UNCHANGED <<sheets, demandsDb, timeLog, book, now>>

DemandsQuery(r, ok) ==
    /\ inFlight(r, "demands")
    /\ LET rq == called(req[r], "queryDemands", outcome(ok))
       IN  step(r, IF ok THEN respond(rq, 200, "list",
                                      demandsOf(sortsAscending(demandsDb)))
                   ELSE caught(rq))
    /\ UNCHANGED <<sheets, demandsDb, timeLog, book, now>>

----------------------------------------------------------------------------
(* POST /api/demands, POST /api/time-entries.                              *)

creating(kind) == Cardinality({r \in DOMAIN req : inFlight(r, kind)})

ReceiveNewDemand(r, clientId, demandName) ==
    /\ free(r)
    /\ Len(demandsDb) + creating("newDemand") < MaxDemands
    /\ step(r, [idleReq EXCEPT !.kind = "newDemand", !.pc = "create",
                               !.clientId = clientId,
                               !.demandName = demandName])
    /\ UNCHANGED <<sheets, demandsDb, timeLog, book, now>>

CreateDemand(r, ok) ==
    /\ inFlight(r, "newDemand")
    /\ LET rq == called(req[r], "createDemand", outcome(ok))
           id == "d" \o ToString(Len(demandsDb) + 1)
       IN  IF ok
           THEN /\ demandsDb' = Append(demandsDb,
                        [id |-> id, title |-> <<rq.demandName>>,
                         cliente |-> <<rq.clientId>>])
                /\ step(r, respond(rq, 201, "record",
                        << [id |-> id, name |-> rq.demandName,
                            clientId |-> rq.clientId] >>))
           ELSE /\ step(r, caught(rq))
                /\ UNCHANGED demandsDb
    /\ UNCHANGED <<sheets, timeLog, book, now>>

ReceiveTimeEntry(r, demandId, durationSeconds) ==
    /\ free(r)
    /\ Len(timeLog) + creating("timeEntry") < MaxEntries
    /\ step(r, [idleReq EXCEPT !.kind = "timeEntry", !.pc = "create",
                               !.demandId = demandId,
                               !.durationSeconds = durationSeconds,
                               !.stamp = now])
    /\ UNCHANGED <<sheets, demandsDb, timeLog, book, now>>

\* the page that notion.pages.create is asked to create
timeEntryPage(rq) ==
    [relation |-> <<rq.demandId>>,
     number |-> toFixed(durationHours(rq.durationSeconds)),
     date |-> rq.stamp]

CreateTimeEntry(r, ok) ==
    /\ inFlight(r, "timeEntry")
    /\ LET rq == called(req[r], "createTimeEntry", outcome(ok))
       IN  IF ok
           THEN /\ timeLog' = Append(timeLog, timeEntryPage(rq))
                /\ step(r, respond(rq, 201, "record", <<timeEntryPage(rq)>>))
           ELSE /\ step(r, caught(rq))
                /\ UNCHANGED timeLog
    /\ UNCHANGED <<sheets, demandsDb, book, now>>

----------------------------------------------------------------------------
(* POST /api/generate-report.                                              *)

ReceiveReport(r, clientId, clientName) ==
    /\ free(r)
    /\ LET rq == [idleReq EXCEPT !.kind = "report", !.pc = "qDemands",
                                 !.clientId = clientId,
                                 !.clientName = clientName,
                                 !.before = book[clientName]]
       IN  step(r, IF notConfigured(sheets) THEN caught(rq) ELSE rq)
    /\ UNCHANGED <<sheets, demandsDb, timeLog, book, now>>

\* Passo 1: the demands query returns; Passo 2 and oneWeekAgo follow
ReportDemands(r, ok) ==
    /\ inFlight(r, "report") /\ req[r].pc = "qDemands"
    /\ LET rq == called(req[r], "queryDemands", outcome(ok))
           clientDemands == clientDemandsOf(demandsQuery(demandsDb, rq.clientId))
       IN  step(r, IF ~ok THEN caught(rq)
                   ELSE IF noDemands(clientDemands)
                        THEN respond(rq, 200, "message", <<>>)
                   ELSE [rq EXCEPT !.pc = "qTime",
                                   !.clientDemands = clientDemands,
                                   !.oneWeekAgo = now - WeekMs])
    /\ UNCHANGED <<sheets, demandsDb, timeLog, book, now>>

\* Passo 3: the time-log query returns `results`; Passo 4 and 5 follow
ReportTimeEntries(r, ok, results) ==
    /\ inFlight(r, "report") /\ req[r].pc = "qTime"
    /\ LET rq == called(req[r], "queryTimeLog", outcome(ok))
           got == [rq EXCEPT !.timeEntries = results]
       IN  step(r, IF ~ok THEN caught(rq)
                   ELSE IF mapThrows(results) THEN caught(got)
                   ELSE IF noEntries(reportDataOf(results, rq.clientDemands))
                        THEN respond(got, 200, "message", <<>>)
                   ELSE [got EXCEPT !.pc = "get",
                            !.sheetData = sheetDataOf(aggregatedDataOf(
                                reportDataOf(results, rq.clientDemands)))])
    /\ UNCHANGED <<sheets, demandsDb, timeLog, book, now>>

\* Passo 6: sheets.spreadsheets.get returns; sheetExists decides the next call
ReportGet(r, ok) ==
    /\ inFlight(r, "report") /\ req[r].pc = "get"
    /\ LET rq == called(req[r], "get", outcome(ok))
       IN  step(r, IF ~ok THEN caught(rq)
                   ELSE IF ~sheetExistsIn(book, rq.clientName)
                        THEN [rq EXCEPT !.pc = "add"]
                   ELSE [rq EXCEPT !.pc = "clear"])
    /\ UNCHANGED <<sheets, demandsDb, timeLog, book, now>>

\* batchUpdate addSheet: the service rejects a title that already exists
ReportAddSheet(r, ok) ==
    /\ inFlight(r, "report") /\ req[r].pc = "add"
    /\ LET exists == book[req[r].clientName].exists
           rq == called(req[r], "addSheet",
                        IF ~ok THEN "fault" ELSE IF exists THEN "exists" ELSE "ok")
       IN  IF ok /\ ~exists
           THEN /\ step(r, [rq EXCEPT !.pc = "clear"])
                /\ book' = addSheet(book, rq.clientName)
           ELSE /\ step(r, caught(rq))
                /\ UNCHANGED book
    /\ UNCHANGED <<sheets, demandsDb, timeLog, now>>

ReportClear(r, ok) ==
    /\ inFlight(r, "report") /\ req[r].pc = "clear"
    /\ LET rq == called(req[r], "clear", outcome(ok))
       IN  IF ok
           THEN /\ step(r, [rq EXCEPT !.pc = "update"])
                /\ book' = clearValues(book, rq.clientName)
           ELSE /\ step(r, caught(rq))
                /\ UNCHANGED book
    /\ UNCHANGED <<sheets, demandsDb, timeLog, now>>

ReportUpdate(r, ok) ==
    /\ inFlight(r, "report") /\ req[r].pc = "update"
    /\ LET rq == called(req[r], "update", outcome(ok))
       IN  IF ok
           THEN /\ step(r, respond(rq, 200, "sheetUrl", <<>>))
                /\ book' = updateValues(book, rq.clientName, rq.sheetData)
           ELSE /\ step(r, caught(rq))
                /\ UNCHANGED book
    /\ UNCHANGED <<sheets, demandsDb, timeLog, now>>

\* every step of a generate-report request but the time-log query
ReportSteps(r) ==
    \E ok \in BOOLEAN :
        \/ ReportDemands(r, ok)
        \/ ReportGet(r, ok)
        \/ ReportAddSheet(r, ok)
        \/ ReportClear(r, ok)
        \/ ReportUpdate(r, ok)

\* the time-log query, answered by a record store that applies the filter
ReportQuery(r) ==
    \E ok \in BOOLEAN :
        ReportTimeEntries(r, ok,
            timeEntriesQuery(timeLog, req[r].oneWeekAgo, req[r].clientDemands))

----------------------------------------------------------------------------
(* The environment: the clock, and the other users of the record store.    *)

Tick ==
    /\ now < Start + MaxTicks
    /\ now' = now + 1
    /\ UNCHANGED <<sheets, demandsDb, timeLog, book, req>>

\* a page added to the time log in the record store's own user interface
ExternalEntry(page) ==
    /\ Len(timeLog) + creating("timeEntry") < MaxEntries
    /\ timeLog' = Append(timeLog, page)
    /\ UNCHANGED <<sheets, demandsDb, book, now, req>>

\* one page dated exactly a week before Start, one dated after every `now`,
\* one of another demand
ExternalEntries ==
    { [relation |-> <<"d1">>, number |-> 2500, date |-> Start - WeekMs],
      [relation |-> <<"d2", "d1">>, number |-> 5000, date |-> Future],
      [relation |-> <<"d2">>, number |-> 2500, date |-> Start] }

NewDemandInputs == { <<"c1", "Design">>, <<"c1", "constructor">> }

----------------------------------------------------------------------------
(* Spec: the whole API, one request at a time, on a record store that      *)
(* starts empty.                                                           *)

priorRows == [i \in 1..3 |-> <<TextCell(<<"old">>), NumCell(i)>>]
absent == [exists |-> FALSE, rows |-> <<>>]
present == [exists |-> TRUE, rows |-> priorRows]

Books == {[t \in SheetNames |-> IF t = "Acme" THEN acme ELSE present] :
            acme \in {absent, present}}

Init ==
    /\ sheets \in BOOLEAN
    /\ demandsDb = <<>>
    /\ timeLog = <<>>
    /\ book = [t \in SheetNames |-> IF t = "Acme" THEN absent ELSE present]
    /\ now = Start
    /\ req = [r \in Slots |-> idleReq]

Next ==
    \/ Tick
    \/ \E page \in ExternalEntries : ExternalEntry(page)
    \/ ReceiveClients(1)
    \/ ReceiveDemands(1)
    \/ \E in \in NewDemandInputs : ReceiveNewDemand(1, in[1], in[2])
    \/ ReceiveTimeEntry(1, "d1", SecondsPerHour)
    \/ \E c \in ClientIds : ReceiveReport(1, c, "Acme")
    \/ \E ok \in BOOLEAN :
          \/ ClientsQuery(1, ok)
          \/ DemandsQuery(1, ok)
          \/ CreateDemand(1, ok)
          \/ CreateTimeEntry(1, ok)
    \/ ReportSteps(1)
    \/ ReportQuery(1)

Spec == Init /\ [][Next]_vars

----------------------------------------------------------------------------
(* The other specifications start on a record store that already holds     *)
(* pages, and run generate-report requests only.                           *)

seedDemands ==
    << [id |-> "d1", title |-> <<"Design">>, cliente |-> <<"c1">>],
       [id |-> "d2", title |-> <<"Develop">>, cliente |-> <<"c1">>],
       [id |-> "d3", title |-> <<"Design">>, cliente |-> <<"c2">>] >>

seedEntries == ExternalEntries

seqsUpTo(S, n) == UNION {[1..k -> S] : k \in 0..n}

InitSeeded(entries) ==
    /\ sheets = TRUE
    /\ demandsDb = seedDemands
    /\ timeLog \in seqsUpTo(entries, MaxEntries)
    /\ book \in Books
    /\ now = Start
    /\ req = [r \in Slots |-> idleReq]

(* SpecTwice: the same generate-report request twice in succession, on a   *)
(* record store that does not change.                                      *)

FirstRun(clientId, clientName) ==
    /\ req[1].pc = "idle"
    /\ ReceiveReport(1, clientId, clientName)

SecondRun ==
    /\ req[1].pc = "done" /\ req[2].pc = "idle"
    /\ ReceiveReport(2, req[1].clientId, req[1].clientName)

NextTwice ==
    \/ Tick
    \/ \E c \in ClientIds : FirstRun(c, "Acme")
    \/ SecondRun
    \/ \E r \in Slots : ReportSteps(r) \/ ReportQuery(r)

SpecTwice == InitSeeded(seedEntries) /\ [][NextTwice]_vars

(* SpecAny: the record store may answer the time-log query with any of its *)
(* pages, and holds a page whose Demanda relation is empty.                *)

noRelation == [relation |-> <<>>, number |-> 2500, date |-> Start]

subSeq(s, keep) == SelectSeq([i \in 1..Len(s) |-> <<i, s[i]>>],
                             LAMBDA p : p[1] \in keep)

anyResults(log) ==
    {[i \in 1..Len(subSeq(log, keep)) |-> subSeq(log, keep)[i][2]] :
        keep \in SUBSET (1..Len(log))}

ReportQueryAny(r) ==
    \E ok \in BOOLEAN, results \in anyResults(timeLog) :
        ReportTimeEntries(r, ok, results)

NextAny ==
    \/ Tick
    \/ \E c \in ClientIds : ReceiveReport(1, c, "Acme")
    \/ ReportSteps(1)
    \/ ReportQueryAny(1)

SpecAny == InitSeeded(seedEntries \cup {noRelation}) /\ [][NextAny]_vars

(* SpecConc: two generate-report requests for the same sheet, interleaved  *)
(* at their remote calls, while time passes and the time log grows.        *)

NextConc ==
    \/ Tick
    \/ \E page \in ExternalEntries : ExternalEntry(page)
    \/ \E r \in Slots :
          \/ ReceiveReport(r, "c1", "Acme")
          \/ ReportSteps(r)
          \/ ReportQuery(r)

SpecConc == InitSeeded(seedEntries) /\ [][NextConc]_vars

(* SpecHours: one POST /api/time-entries for each durationSeconds.         *)

InitHours == InitSeeded({}) /\ book["Acme"] = absent

NextHours ==
    \/ /\ timeLog = <<>> /\ req[1].pc = "idle"
       /\ \E secs \in 0..MaxSeconds : ReceiveTimeEntry(1, "d1", secs)
    \/ \E ok \in BOOLEAN : CreateTimeEntry(1, ok)

SpecHours == InitHours /\ [][NextHours]_vars

----------------------------------------------------------------------------
(* Vocabulary of the properties.                                           *)

isReport(rq) == rq.kind = "report"
ops(rq) == {rq.log[i].op : i \in 1..Len(rq.log)}
answered(rq, op) == \E i \in 1..Len(rq.log) : rq.log[i] = [op |-> op, res |-> "ok"]
faulted(rq) == \E i \in 1..Len(rq.log) : rq.log[i].res = "fault"
sheetOps == {"get", "addSheet", "clear", "update"}
wrote(rq) == isReport(rq) /\ rq.pc = "done" /\ rq.reply = "sheetUrl"

\* some entry of the response has no demand relation
missingRelation(entries) == \E i \in 1..Len(entries) : Len(entries[i].relation) = 0

header == << TextCell(<<"Demanda">>), TextCell(<<"Horas">>) >>

\* the demand names that the entries of a response resolve to
namesOf(entries, clientDemands) ==
    {demandNameOf(entries[i], clientDemands) : i \in 1..Len(entries)}

\* the sum of the durations of the entries that resolve to `name`
RECURSIVE hoursOf(_, _, _)
hoursOf(entries, clientDemands, name) ==
    IF entries = <<>> THEN 0
    ELSE (IF demandNameOf(Head(entries), clientDemands) = name
          THEN Head(entries).number ELSE 0)
         + hoursOf(Tail(entries), clientDemands, name)

\* C1. The table of a generate-report request is the header row followed by
\* exactly one row per distinct demand name that the returned time entries
\* resolve to, each row holding the sum of the durations of the entries of
\* that name; a request that answers with the sheet URL has left exactly
\* that table in the sheet.
C1_TableIsSumPerName ==
    \A r \in Slots :
        (isReport(req[r]) /\ req[r].sheetData # <<>>) =>
            LET rq == req[r]
                rows == Tail(rq.sheetData)
                names == namesOf(rq.timeEntries, rq.clientDemands)
            IN  /\ Head(rq.sheetData) = header
                /\ Len(rows) = Cardinality(names)
                /\ \A name \in names : \E i \in 1..Len(rows) :
                      rows[i] = << TextCell(<<name>>),
                                   NumCell(hoursOf(rq.timeEntries,
                                                   rq.clientDemands, name)) >>
                /\ wrote(rq) => book[rq.clientName].rows = rq.sheetData

\* C2. A generate-report request whose demands query returned no demand,
\* or whose time-log query returned no entry, is answered 200 with a
\* message-only body and issues no spreadsheet operation.
C2_ShortCircuit ==
    \A r \in Slots :
        LET rq == req[r]
            zeroDemands == answered(rq, "queryDemands") /\ rq.clientDemands = <<>>
            zeroEntries == answered(rq, "queryTimeLog") /\ rq.timeEntries = <<>>
        IN  (isReport(rq) /\ (zeroDemands \/ zeroEntries)) =>
                /\ rq.pc = "done" /\ rq.status = 200 /\ rq.reply = "message"
                /\ ops(rq) \cap sheetOps = {}

C2_Witness ==
    \E r \in Slots :
        /\ isReport(req[r]) /\ req[r].clientDemands # <<>>
        /\ answered(req[r], "queryTimeLog") /\ req[r].timeEntries = <<>>
        /\ req[r].status = 200 /\ timeLog # <<>>

\* C4. If the time-log query returned a time entry whose demand relation is
\* empty, the request is answered 500, has issued no spreadsheet operation,
\* and the target sheet is as the request found it.
C4_MissingRelationAborts ==
    \A r \in Slots :
        LET rq == req[r]
        IN  (isReport(rq) /\ answered(rq, "queryTimeLog")
                          /\ missingRelation(rq.timeEntries)) =>
                /\ rq.pc = "done" /\ rq.status = 500 /\ rq.reply = "error"
                /\ ops(rq) \cap sheetOps = {}
                /\ book[rq.clientName] = rq.before

C4_Witness ==
    \E r \in Slots :
        /\ isReport(req[r]) /\ answered(req[r], "queryTimeLog")
        /\ Len(req[r].timeEntries) > 1 /\ missingRelation(req[r].timeEntries)
        /\ req[r].status = 500

\* C3 as stated. Two runs of the same request in succession on an unchanged
\* record store, neither meeting a remote fault: both answer 200, and the
\* second leaves the sheet as the first left it.
C3_Idempotent ==
    (req[1].pc = "done" /\ req[2].pc = "done"
        /\ ~faulted(req[1]) /\ ~faulted(req[2])) =>
            /\ req[1].status = 200 /\ req[2].status = 200
            /\ book[req[2].clientName] = req[2].before

\* C3 as amended. The same, provided the time-log query returned the same
\* entries to both runs (no entry left the 7-day window between them).
C3_IdempotentSameWindow ==
    (req[1].pc = "done" /\ req[2].pc = "done"
        /\ ~faulted(req[1]) /\ ~faulted(req[2])
        /\ req[1].timeEntries = req[2].timeEntries) =>
            /\ req[1].status = 200 /\ req[2].status = 200
            /\ book[req[2].clientName] = req[2].before

C3_Witness ==
    /\ wrote(req[1]) /\ wrote(req[2])
    /\ req[1].before = present
    /\ req[1].timeEntries = req[2].timeEntries
    /\ Len(req[2].sheetData) > 2
    /\ book[req[2].clientName].rows = req[2].sheetData

\* what each of the four other endpoints answers, given its remote call
answersAsConfigured(rq) ==
    LET fault(op) == rq.log = << [op |-> op, res |-> "fault"] >>
                        /\ rq.status = 500 /\ rq.reply = "error"
        fine(op) == rq.log = << [op |-> op, res |-> "ok"] >>
    IN  CASE rq.kind = "clients" ->
                \/ fault("queryClients")
                \/ /\ fine("queryClients") /\ rq.status = 200
                   /\ rq.data = clientsOf(sortsAscending(clientsDb))
          [] rq.kind = "demands" ->
                \/ fault("queryDemands")
                \/ /\ fine("queryDemands") /\ rq.status = 200
                   /\ rq.data = demandsOf(sortsAscending(demandsDb))
          [] rq.kind = "newDemand" ->
                \/ fault("createDemand")
                \/ /\ fine("createDemand") /\ rq.status = 201
                   /\ demandsDb # <<>>
                   /\ demandsDb[Len(demandsDb)].title = <<rq.demandName>>
                   /\ demandsDb[Len(demandsDb)].cliente = <<rq.clientId>>
          [] rq.kind = "timeEntry" ->
                \/ fault("createTimeEntry")
                \/ /\ fine("createTimeEntry") /\ rq.status = 201
                   /\ timeEntryPage(rq) \in Range(timeLog)
          [] OTHER -> FALSE

\* C5. Without spreadsheet credentials every generate-report request is
\* answered 500 and issues no remote call at all, while the four other
\* endpoints answer what their one record-store call decides.
C5_OnlyReportDisabled ==
    ~sheets =>
        \A r \in Slots :
            LET rq == req[r]
            IN  /\ isReport(rq) =>
                    rq.pc = "done" /\ rq.status = 500 /\ rq.log = <<>>
                /\ (~isReport(rq) /\ rq.pc = "done") => answersAsConfigured(rq)

C5_Witness ==
    /\ ~sheets
    /\ isReport(req[1]) /\ req[1].status = 500 /\ req[1].log = <<>>
    /\ demandsDb # <<>> /\ timeLog # <<>>

\* C6. The number stored by POST /api/time-entries is the nearest integer
\* count of ten-thousandths of an hour to durationSeconds / 3600; 3600
\* seconds are stored as 1.0000 and 90 seconds as 0.0250.
C6_HoursRounded ==
    \A r \in Slots :
        (req[r].kind = "timeEntry" /\ req[r].status = 201) =>
            LET d == req[r].durationSeconds
                n == timeLog[Len(timeLog)].number
                diff == n * SecondsPerHour - d * Scale
            IN  /\ req[r].data[1].number = n
                /\ 2 * diff <= SecondsPerHour /\ -2 * diff <= SecondsPerHour
                /\ d = 3600 => n = 10000
                /\ d = 90 => n = 250

C6_Witness ==
    /\ req[1].kind = "timeEntry" /\ req[1].status = 201
    /\ req[1].durationSeconds = 100
    /\ timeLog = << [relation |-> <<"d1">>, number |-> 278, date |-> Start] >>

\* C7. In every request each remote operation is issued at most once, a
\* failed call is the last call of its request, and the request that met
\* it is answered 500.
C7_NoRetry ==
    \A r \in Slots :
        LET log == req[r].log
        IN  /\ \A i, j \in 1..Len(log) : log[i].op = log[j].op => i = j
            /\ \A i \in 1..Len(log) :
                  log[i].res # "ok" =>
                      /\ i = Len(log)
                      /\ req[r].pc = "done" /\ req[r].status = 500

C7_Witness ==
    \E r \in Slots :
        /\ isReport(req[r]) /\ req[r].status = 500
        /\ Len(req[r].log) = 4
        /\ req[r].log[4] = [op |-> "clear", res |-> "fault"]

\* C8. The entries that the time-log query returns to a generate-report
\* request are exactly the pages of the time log that relate to one of the
\* client's demands and are dated from `now` minus seven days through `now`,
\* `now` being the instant at which the request computed oneWeekAgo.
C8_WindowExact ==
    [][\A r \in Slots :
        (req[r].pc = "qTime" /\ answered(req'[r], "queryTimeLog")) =>
            req'[r].timeEntries =
                SelectSeq(timeLog, LAMBDA page :
                    /\ demandIdFilters(page, req[r].clientDemands)
                    /\ page.date >= req[r].oneWeekAgo
                    /\ page.date <= req[r].oneWeekAgo + WeekMs)]_vars

\* C9. No addSheet call finds its sheet already there.
C9_NoAddSheetOnExisting ==
    \A r \in Slots : \A i \in 1..Len(req[r].log) :
        req[r].log[i].op = "addSheet" => req[r].log[i].res # "exists"

\* C10. When two requests for the same sheet have both answered with the
\* sheet URL, the sheet holds the complete table of one of them.
C10_FinalIsOneTable ==
    (wrote(req[1]) /\ wrote(req[2]) /\ req[1].clientName = req[2].clientName) =>
        \/ book[req[1].clientName].rows = req[1].sheetData
        \/ book[req[1].clientName].rows = req[2].sheetData

====
